---------------------------- MODULE Spec2Model ----------------------------
(***************************************************************************)
(* Model of packages/api/src/utils/tokens.ts: the token-limit lookup       *)
(* (findMatchingPattern, getModelTokenValue, getModelMaxTokens,            *)
(* matchModelName) and the catalog normaliser (processModelData).          *)
(*                                                                         *)
(* JavaScript values are tagged records (field t is the typeof tag).       *)
(* A JavaScript string is a sequence of one-character strings, so that     *)
(* toLowerCase and String.prototype.includes are computed, not assumed.    *)
(* A plain object used as a map keeps the creation order of its keys;      *)
(* Object.keys enumerates integer-index keys first, in ascending numeric   *)
(* order, and then the other keys in creation order (ECMAScript            *)
(* OrdinaryOwnPropertyKeys).  Properties inherited from Object.prototype   *)
(* are outside the model: no modelled name collides with one.              *)
(***************************************************************************)
EXTENDS Integers, Sequences, FiniteSets, TLC

VARIABLES
    maxTokensMap,         \* the built-in table: endpoint -> map, or undefined
    endpointTokenConfig,  \* the map the caller holds (or undefined)
    input,                \* the catalog payload handed to processModelData
    argModelName,         \* the model name the caller asks about
    argKey,               \* the TokenConfig field the caller asks for
    argEndpoint,          \* the endpoint the caller names
    call                  \* the last call made and what it returned

vars ==
    <<maxTokensMap, endpointTokenConfig, input, argModelName, argKey, argEndpoint, call>>

---------------------------------------------------------------------------
(* Bounds of the model *)

MaxKeys == 2
MaxData == 2

---------------------------------------------------------------------------
(* JavaScript values *)

Undefined == [t |-> "undefined"]
Null == [t |-> "null"]
NaN == [t |-> "number", nan |-> TRUE, n |-> 0, d |-> 0]

\* A finite number n / 10^d (d decimal places), kept normalised by Norm.
Dec(n, d) == [t |-> "number", nan |-> FALSE, n |-> n, d |-> d]
Num(n) == Dec(n, 0)
Str(s) == [t |-> "string", s |-> s]

\* A TokenConfig record; an absent field holds Undefined.
TokenConfig(prompt, completion, context, output) ==
    [t |-> "object", prompt |-> prompt, completion |-> completion,
     context |-> context, output |-> output]

\* ToBoolean
Truthy(v) ==
    CASE v.t = "undefined" -> FALSE
      [] v.t = "null" -> FALSE
      [] v.t = "number" -> (~v.nan) /\ v.n # 0
      [] v.t = "string" -> v.s # << >>
      [] OTHER -> TRUE

---------------------------------------------------------------------------
(* Strings *)

ToLowerChar(c) ==
    CASE c = "A" -> "a"
      [] c = "B" -> "b"
      [] OTHER -> c

ToLowerCase(s) == [i \in 1..Len(s) |-> ToLowerChar(s[i])]

\* String.prototype.includes
Includes(s, k) ==
    \E i \in 0..(Len(s) - Len(k)) : SubSeq(s, i + 1, i + Len(k)) = k

Digits == {"0", "1", "2", "3", "4", "5", "6", "7", "8", "9"}

DigitVal(c) ==
    CASE c = "0" -> 0 [] c = "1" -> 1 [] c = "2" -> 2 [] c = "3" -> 3
      [] c = "4" -> 4 [] c = "5" -> 5 [] c = "6" -> 6 [] c = "7" -> 7
      [] c = "8" -> 8 [] c = "9" -> 9

RECURSIVE DigitsVal(_)
DigitsVal(s) ==
    IF s = << >> THEN 0
    ELSE 10 * DigitsVal(SubSeq(s, 1, Len(s) - 1)) + DigitVal(s[Len(s)])

\* A canonical array index: the key is ToString of an integer below 2^32 - 1.
\* Keys of ten digits or more are not drawn by the model, so nine digits
\* (all below 2^32 - 1) decide it.
IsArrayIndex(s) ==
    /\ Len(s) >= 1
    /\ Len(s) <= 9
    /\ \A i \in 1..Len(s) : s[i] \in Digits
    /\ (Len(s) = 1 \/ s[1] # "0")

SystemDefault ==
    <<"s", "y", "s", "t", "e", "m", "_", "d", "e", "f", "a", "u", "l", "t">>

OpenRouterAuto ==
    <<"o", "p", "e", "n", "r", "o", "u", "t", "e", "r", "/", "a", "u", "t", "o">>

---------------------------------------------------------------------------
(* Plain objects used as maps *)

EmptyObject == [t |-> "map", keys |-> << >>, get |-> << >>]

HasOwn(o, k) == k \in DOMAIN o.get

\* o[k]
Get(o, k) == IF HasOwn(o, k) THEN o.get[k] ELSE Undefined

\* o[k] = v : a new key is created last, an existing key keeps its place.
Put(o, k, v) ==
    IF HasOwn(o, k)
    THEN [o EXCEPT !.get = [x \in DOMAIN o.get |-> IF x = k THEN v ELSE o.get[x]]]
    ELSE [o EXCEPT !.keys = Append(o.keys, k),
                   !.get = [x \in DOMAIN o.get \cup {k} |->
                              IF x = k THEN v ELSE o.get[x]]]

RECURSIVE SortByIndex(_)
SortByIndex(S) ==
    IF S = {} THEN << >>
    ELSE LET m == CHOOSE x \in S : \A y \in S : DigitsVal(x) <= DigitsVal(y)
         IN <<m>> \o SortByIndex(S \ {m})

IsNotIndex(k) == ~IsArrayIndex(k)

\* Object.keys(o)
ObjectKeys(o) ==
    SortByIndex({k \in DOMAIN o.get : IsArrayIndex(k)})
        \o SelectSeq(o.keys, IsNotIndex)

---------------------------------------------------------------------------
(* findMatchingPattern *)

RECURSIVE ScanKeys(_, _, _)
ScanKeys(keys, lowerModelName, i) ==
    IF i < 1 THEN Null
    ELSE IF Includes(lowerModelName, keys[i]) THEN Str(keys[i])
    ELSE ScanKeys(keys, lowerModelName, i - 1)

RECURSIVE ScanKeysForward(_, _, _)
ScanKeysForward(keys, lowerModelName, i) ==
    IF i > Len(keys) THEN Null
    ELSE IF Includes(lowerModelName, keys[i]) THEN Str(keys[i])
    ELSE ScanKeysForward(keys, lowerModelName, i + 1)

\* Mutant: the keys are scanned from the first to the last.
FindMatchingPatternForward(modelName, tokensMap) ==
    ScanKeysForward(ObjectKeys(tokensMap), ToLowerCase(modelName.s), 1)

FindMatchingPattern(modelName, tokensMap) ==
    LET keys == ObjectKeys(tokensMap)
        lowerModelName == ToLowerCase(modelName.s)
    IN ScanKeys(keys, lowerModelName, Len(keys))

---------------------------------------------------------------------------
(* getModelTokenValue *)

\* result?.[key] on a map entry
Field(v, key) ==
    IF v.t # "object" THEN Undefined
    ELSE CASE key = "prompt" -> v.prompt
           [] key = "completion" -> v.completion
           [] key = "context" -> v.context
           [] key = "output" -> v.output

\* Mutant: the typeof guard is missing and a modelName that is no string is
\* used through its string form (String(1) is "1").
GetModelTokenValueUnguarded(modelName, tokensMap, key) ==
    IF ~Truthy(tokensMap) THEN Undefined
    ELSE
    LET name == IF modelName.t = "string" THEN modelName ELSE Str(<<"1">>)
        value == Get(tokensMap, name.s)
    IN
    IF value.t = "number" THEN value
    ELSE IF Truthy(Field(value, "context")) THEN Field(value, "context")
    ELSE
    LET matchedPattern == FindMatchingPattern(name, tokensMap) IN
    IF Truthy(matchedPattern)
    THEN LET result == Get(tokensMap, matchedPattern.s)
             tokenValue == Field(result, key)
         IN IF result.t = "number" THEN result
            ELSE IF tokenValue.t = "number" THEN tokenValue
            ELSE Get(tokensMap, SystemDefault)
    ELSE Get(tokensMap, SystemDefault)

GetModelTokenValue(modelName, tokensMap, key) ==
    IF modelName.t # "string" \/ ~Truthy(tokensMap) THEN Undefined
    ELSE
    LET value == Get(tokensMap, modelName.s) IN
    IF value.t = "number" THEN value
    ELSE IF Truthy(Field(value, "context")) THEN Field(value, "context")
    ELSE
    LET matchedPattern == FindMatchingPattern(modelName, tokensMap) IN
    IF Truthy(matchedPattern)
    THEN LET result == Get(tokensMap, matchedPattern.s)
             tokenValue == Field(result, key)
         IN IF result.t = "number" THEN result
            ELSE IF tokenValue.t = "number" THEN tokenValue
            ELSE Get(tokensMap, SystemDefault)
    ELSE Get(tokensMap, SystemDefault)

---------------------------------------------------------------------------
(* getModelMaxTokens and matchModelName, over the built-in table *)

OpenAI == "openAI"

GetModelMaxTokens(modelName, endpoint, endpointTokenConfigArg) ==
    LET tokensMap ==
            IF endpointTokenConfigArg.t \in {"undefined", "null"}
            THEN maxTokensMap[endpoint]
            ELSE endpointTokenConfigArg
    IN GetModelTokenValue(modelName, tokensMap, "context")

MatchModelName(modelName, endpoint) ==
    IF modelName.t # "string" THEN Undefined
    ELSE
    LET tokensMap == maxTokensMap[endpoint] IN
    IF ~Truthy(tokensMap) THEN modelName
    ELSE IF Truthy(Get(tokensMap, modelName.s)) THEN modelName
    ELSE LET matchedPattern == FindMatchingPattern(modelName, tokensMap)
         IN IF Truthy(matchedPattern) THEN matchedPattern ELSE modelName

---------------------------------------------------------------------------
(* processModelData *)

\* z.string(), z.number() (zod rejects NaN), z.object({...})
ZString(v) == v.t = "string"
ZNumber(v) == v.t = "number" /\ ~v.nan

\* Mutant: context_length is not validated.
ModelSchemaNoContext(model) ==
    /\ model.t = "object"
    /\ ZString(model.id)
    /\ model.pricing.t = "object"
    /\ ZString(model.pricing.prompt)
    /\ ZString(model.pricing.completion)

ModelSchema(model) ==
    /\ model.t = "object"
    /\ ZString(model.id)
    /\ model.pricing.t = "object"
    /\ ZString(model.pricing.prompt)
    /\ ZString(model.pricing.completion)
    /\ ZNumber(model.context_length)

InputSchema(inp) ==
    /\ inp.t = "object"
    /\ inp.data.t = "array"
    /\ \A i \in 1..Len(inp.data.items) : ModelSchema(inp.data.items[i])

\* Trailing zeros of the fraction are dropped: 2000000 / 10^6 is 2.
RECURSIVE Norm(_, _)
Norm(n, d) ==
    IF d > 0 /\ n % 10 = 0 THEN Norm(n \div 10, d - 1) ELSE Dec(n, d)

RECURSIVE DigitRun(_, _)
\* The longest run of digits of s that starts at position i.
DigitRun(s, i) ==
    IF i <= Len(s) /\ s[i] \in Digits THEN <<s[i]>> \o DigitRun(s, i + 1)
    ELSE << >>

\* parseFloat on an unsigned decimal literal without exponent: the longest
\* prefix of the form digits [. digits] is read, NaN when it has no digit.
\* The result is the exact decimal; for the price strings of the model the
\* IEEE double product with 1000000 is exact as well.
ParseFloat(s) ==
    LET intPart == DigitRun(s, 1)
        dot == Len(intPart) + 1
        fracPart == IF dot <= Len(s) /\ s[dot] = "." THEN DigitRun(s, dot + 1)
                    ELSE << >>
    IN IF intPart = << >> /\ fracPart = << >> THEN NaN
       ELSE Norm(DigitsVal(intPart \o fracPart), Len(fracPart))

Million == 1000000

Times(v, m) == IF v.nan THEN NaN ELSE Norm(v.n * m, v.d)

AutoPrompt == <<"0", ".", "0", "0", "0", "0", "1">>
AutoCompletion == <<"0", ".", "0", "0", "0", "0", "3">>

Pricing(prompt, completion) ==
    [t |-> "object", prompt |-> prompt, completion |-> completion]

\* Mutant: the pricing of openrouter/auto is taken as supplied.
PricingAsSupplied(model) == model.pricing

\* Lines 190-195: the pricing used for an entry.
PricingOf(model) ==
    IF model.id.s = OpenRouterAuto
    THEN Pricing(Str(AutoPrompt), Str(AutoCompletion))
    ELSE model.pricing

\* Mutant: an id that is already in the map keeps its first value.
StoreFirstWins(tokenConfig, model) ==
    IF HasOwn(tokenConfig, model.id.s) THEN tokenConfig
    ELSE LET pricing == PricingOf(model)
         IN Put(tokenConfig, model.id.s,
                TokenConfig(Times(ParseFloat(pricing.prompt.s), Million),
                            Times(ParseFloat(pricing.completion.s), Million),
                            model.context_length, Undefined))

\* Lines 189-203: the body of the loop, for one entry.
Store(tokenConfig, model) ==
    LET pricing == PricingOf(model)
        prompt == Times(ParseFloat(pricing.prompt.s), Million)
        completion == Times(ParseFloat(pricing.completion.s), Million)
    IN Put(tokenConfig, model.id.s,
           TokenConfig(prompt, completion, model.context_length, Undefined))

RECURSIVE BuildTokenConfig(_, _, _)
BuildTokenConfig(data, i, tokenConfig) ==
    IF i > Len(data) THEN tokenConfig
    ELSE BuildTokenConfig(data, i + 1, Store(tokenConfig, data[i]))

InvalidInputData == [t |-> "error", message |-> "Invalid input data"]

ProcessModelData(inp) ==
    IF ~InputSchema(inp) THEN InvalidInputData
    ELSE BuildTokenConfig(inp.data.items, 1, EmptyObject)

---------------------------------------------------------------------------
(* The inputs the model draws *)

Endpoints == {OpenAI, "none"}

\* Pattern keys: the empty key, a letter, two integer indices, a longer key
\* and a key with an upper-case letter.
Keys == {<< >>, <<"a">>, <<"1">>, <<"2">>, <<"a", "1">>, <<"A", "1">>}

\* Model names handed to the lookups; Num(1) is a modelName that is no string.
ModelNames ==
    {Str(<< >>), Str(<<"a">>), Str(<<"1">>), Str(<<"2">>), Str(<<"2", "1">>),
     Str(<<"a", "1">>), Str(<<"A", "1">>), Str(<<"b">>), Num(1)}

\* The fields asked of a caller's map; its records hold no completion and no
\* output, so one absent field stands for both.
Fields == {"context", "prompt", "output"}

\* Values of a caller's map: a bare number, and records whose context is
\* set, zero or absent.
TokenValues ==
    {Num(7),
     TokenConfig(Num(3), Undefined, Num(9), Undefined),
     TokenConfig(Num(3), Undefined, Num(0), Undefined),
     TokenConfig(Num(3), Undefined, Undefined, Undefined)}

\* Values of a built-in Record<string, number>.
BuiltinValues == {Num(0), Num(5), Num(7)}

RECURSIVE FromEntries(_, _, _)
\* The object literal { k1: v1, k2: v2, ... }.
FromEntries(entries, i, o) ==
    IF i > Len(entries) THEN o
    ELSE FromEntries(entries, i + 1, Put(o, entries[i][1], entries[i][2]))

DistinctKeys(entries) ==
    \A i, j \in 1..Len(entries) : i # j => entries[i][1] # entries[j][1]

MapsOf(E) ==
    {FromEntries(es, 1, EmptyObject) :
        es \in {x \in UNION {[1..n -> E] : n \in 0..MaxKeys} : DistinctKeys(x)}}

\* system_default, when present, is a plain number.
TokenMaps == MapsOf((Keys \X TokenValues) \cup {<<SystemDefault, Num(4)>>})

BuiltinMaps == MapsOf((Keys \X BuiltinValues) \cup {<<SystemDefault, Num(4)>>})

P2 == <<"0", ".", "0", "0", "0", "0", "0", "2">>
P4 == <<"0", ".", "0", "0", "0", "0", "0", "4">>
Free == <<"0">>
Half == <<"0", ".", "5">>

CatalogEntry(id, pricing, context_length) ==
    [t |-> "object", id |-> id, pricing |-> pricing,
     context_length |-> context_length]

Ids == {<<"a">>, <<"1">>, <<"2">>, OpenRouterAuto}

ContextLengths == {Num(0), Num(7)}

\* Entries that conform to modelSchema.
ValidEntries ==
    {CatalogEntry(Str(id), pr, c) :
        id \in {<<"a">>, <<"1">>},
        pr \in {Pricing(Str(P2), Str(P4)), Pricing(Str(Free), Str(Half))},
        c \in ContextLengths}
    \cup {CatalogEntry(Str(<<"2">>), Pricing(Str(Free), Str(Half)), c) :
            c \in ContextLengths}
    \cup {CatalogEntry(Str(OpenRouterAuto), Pricing(Str(P2), Str(P4)), c) :
            c \in ContextLengths}

\* Entries that do not: pricing missing, context_length missing or a string,
\* or no object at all.
InvalidEntries ==
    {CatalogEntry(Str(<<"a">>), Undefined, Num(7)),
     CatalogEntry(Str(<<"a">>), Pricing(Str(P2), Str(P4)), Undefined),
     CatalogEntry(Str(<<"a">>), Pricing(Str(P2), Str(P4)), Str(<<"7">>)),
     Null}

\* Model names asked of a normalised catalog: its ids, an unknown name and a
\* modelName that is no string.
CatalogNames == {Str(id) : id \in Ids} \cup {Str(<<"b">>), Num(1)}

\* The fields a normalised catalog holds, and one it does not.
CatalogFields == {"context", "prompt", "completion", "output"}

Array(items) == [t |-> "array", items |-> items]

CatalogInputs ==
    {[t |-> "object", data |-> Array(items)] :
        items \in UNION {[1..n -> ValidEntries \cup InvalidEntries] : n \in 0..MaxData}}
    \cup {[t |-> "object", data |-> Undefined],
          [t |-> "object", data |-> Str(<<"a">>)],
          Undefined}

NoInput == [t |-> "none"]
NoCall == [op |-> "none"]
NoBuiltin == [e \in Endpoints |-> Undefined]

---------------------------------------------------------------------------
(* The calls: each applies one function to the caller's arguments *)

FindMatchingPatternCall ==
    /\ endpointTokenConfig.t = "map"
    /\ argModelName.t = "string"
    /\ call' = [op |-> "findMatchingPattern",
                result |-> FindMatchingPattern(argModelName, endpointTokenConfig)]
    /\ UNCHANGED <<maxTokensMap, endpointTokenConfig, input,
                   argModelName, argKey, argEndpoint>>

GetModelTokenValueCall ==
    /\ call' = [op |-> "getModelTokenValue",
                result |-> GetModelTokenValue(argModelName, endpointTokenConfig, argKey)]
    /\ UNCHANGED <<maxTokensMap, endpointTokenConfig, input,
                   argModelName, argKey, argEndpoint>>

GetModelMaxTokensCall ==
    /\ call' = [op |-> "getModelMaxTokens",
                result |-> GetModelMaxTokens(argModelName, argEndpoint, endpointTokenConfig)]
    /\ UNCHANGED <<maxTokensMap, endpointTokenConfig, input,
                   argModelName, argKey, argEndpoint>>

MatchModelNameCall ==
    /\ call' = [op |-> "matchModelName",
                result |-> MatchModelName(argModelName, argEndpoint)]
    /\ UNCHANGED <<maxTokensMap, endpointTokenConfig, input,
                   argModelName, argKey, argEndpoint>>

\* The caller keeps the returned map; a throw leaves it with what it had.
ProcessModelDataCall ==
    /\ input # NoInput
    /\ LET result == ProcessModelData(input)
       IN /\ call' = [op |-> "processModelData", result |-> result]
          /\ endpointTokenConfig' =
                IF result.t = "error" THEN endpointTokenConfig ELSE result
    /\ UNCHANGED <<maxTokensMap, input, argModelName, argKey, argEndpoint>>

---------------------------------------------------------------------------
(* Specifications *)

\* Lookups in a map supplied by the caller.
Init ==
    /\ maxTokensMap = NoBuiltin
    /\ endpointTokenConfig \in TokenMaps \cup {Undefined}
    /\ input = NoInput
    /\ argModelName \in ModelNames
    /\ argKey \in Fields
    /\ argEndpoint = OpenAI
    /\ call = NoCall

Next ==
    \/ FindMatchingPatternCall
    \/ GetModelTokenValueCall
    \/ GetModelMaxTokensCall

Spec == Init /\ [][Next]_vars

\* Lookups in the built-in table, without an override.
InitBuiltin ==
    /\ maxTokensMap \in {[e \in Endpoints |-> IF e = OpenAI THEN m ELSE Undefined] :
                            m \in BuiltinMaps}
    /\ endpointTokenConfig = Undefined
    /\ input = NoInput
    /\ argModelName \in ModelNames
    /\ argKey = "context"
    /\ argEndpoint \in Endpoints
    /\ call = NoCall

NextBuiltin ==
    \/ MatchModelNameCall
    \/ GetModelMaxTokensCall

SpecBuiltin == InitBuiltin /\ [][NextBuiltin]_vars

\* A catalog is normalised and the resulting map is queried.
InitCatalog ==
    /\ maxTokensMap = NoBuiltin
    /\ endpointTokenConfig = Undefined
    /\ input \in CatalogInputs
    /\ argModelName \in CatalogNames
    /\ argKey \in CatalogFields
    /\ argEndpoint = OpenAI
    /\ call = NoCall

NextCatalog ==
    \/ ProcessModelDataCall
    \/ GetModelTokenValueCall

SpecCatalog == InitCatalog /\ [][NextCatalog]_vars

---------------------------------------------------------------------------
(* Claims about the lookups in a caller's map (specification Spec) *)

IsMap(v) == v.t = "map"

\* The place of key k in the creation order of o.
InsertedAt(o, k) == CHOOSE i \in 1..Len(o.keys) : o.keys[i] = k

\* The keys of o that are substrings of the lower-cased name.
Matching(name, o) == {k \in DOMAIN o.get : Includes(ToLowerCase(name.s), k)}

\* k1 is enumerated before k2: integer indices ascending, then the other
\* keys as created.
EnumeratedBefore(o, k1, k2) ==
    \/ IsArrayIndex(k1) /\ IsArrayIndex(k2) /\ DigitsVal(k1) < DigitsVal(k2)
    \/ IsArrayIndex(k1) /\ ~IsArrayIndex(k2)
    \/ ~IsArrayIndex(k1) /\ ~IsArrayIndex(k2) /\ InsertedAt(o, k1) < InsertedAt(o, k2)

\* C1, as stated: findMatchingPattern returns null exactly when no key is a
\* substring of the lower-cased name, and otherwise the matching key that was
\* inserted latest.
C1_LatestInserted ==
    call.op = "findMatchingPattern" =>
        LET r == call.result
            m == Matching(argModelName, endpointTokenConfig)
        IN /\ (r = Null) <=> (m = {})
           /\ r # Null =>
                /\ r.t = "string"
                /\ r.s \in m
                /\ \A k \in m : InsertedAt(endpointTokenConfig, k)
                                    <= InsertedAt(endpointTokenConfig, r.s)

\* C1, amended: findMatchingPattern returns null exactly when no key is a
\* substring of the lower-cased name, and otherwise the matching key that
\* Object.keys enumerates last; when no matching key is an integer index
\* that is the matching key inserted latest.
C1_LastEnumerated ==
    call.op = "findMatchingPattern" =>
        LET r == call.result
            m == Matching(argModelName, endpointTokenConfig)
        IN /\ (r = Null) <=> (m = {})
           /\ r # Null =>
                /\ r.t = "string"
                /\ r.s \in m
                /\ \A k \in m \ {r.s} : EnumeratedBefore(endpointTokenConfig, k, r.s)
                /\ (\A k \in m : ~IsArrayIndex(k)) =>
                      \A k \in m : InsertedAt(endpointTokenConfig, k)
                                      <= InsertedAt(endpointTokenConfig, r.s)

\* Two keys match, the integer index "1" was inserted after "a", and "a" is
\* returned.
C1_Witness ==
    /\ call.op = "findMatchingPattern"
    /\ call.result = Str(<<"a">>)
    /\ <<"1">> \in Matching(argModelName, endpointTokenConfig)
    /\ InsertedAt(endpointTokenConfig, <<"1">>)
          > InsertedAt(endpointTokenConfig, <<"a">>)

\* The resolution order of C2, written from the claim.
C2_Resolution(name, o, field) ==
    LET exact == Get(o, name.s)
        pattern == FindMatchingPattern(name, o)
        entry == Get(o, pattern.s)
    IN IF exact.t = "number" THEN exact
       ELSE IF exact.t = "object" /\ exact.context.t = "number" THEN exact.context
       ELSE IF pattern # Null
            THEN IF entry.t = "number" THEN entry
                 ELSE IF Field(entry, field).t = "number" THEN Field(entry, field)
                 ELSE Get(o, SystemDefault)
       ELSE Get(o, SystemDefault)

\* C2: for a string name and a non-empty map, getModelTokenValue returns the
\* exact key's bare number, else the exact key's populated context, else the
\* pattern key's number or requested field or system_default, else
\* system_default.
C2_ResolutionOrder ==
    (/\ call.op = "getModelTokenValue"
     /\ argModelName.t = "string"
     /\ IsMap(endpointTokenConfig)
     /\ endpointTokenConfig.keys # << >>)
        => call.result = C2_Resolution(argModelName, endpointTokenConfig, argKey)

AllLowerCase(o) == \A k \in DOMAIN o.get : ToLowerCase(k) = k

\* The model names that differ from name at most in letter case.
CaseVariants(name) ==
    {other \in ModelNames :
        other.t = "string" /\ ToLowerCase(other.s) = ToLowerCase(name.s)}

\* C5, as stated: over a map whose keys are all lower-case, two model names
\* that differ only in letter case get the same getModelTokenValue result.
C5_CaseInsensitive ==
    (/\ call.op = "getModelTokenValue"
     /\ argModelName.t = "string"
     /\ IsMap(endpointTokenConfig)
     /\ AllLowerCase(endpointTokenConfig))
        => \A other \in CaseVariants(argModelName) :
              GetModelTokenValue(other, endpointTokenConfig, argKey) = call.result

\* C9: getModelTokenValue returns undefined when the map is absent or empty,
\* and when modelName is not a string.
C9_UndefinedWhenUnresolvable ==
    call.op = "getModelTokenValue" =>
        /\ (~IsMap(endpointTokenConfig) \/ endpointTokenConfig.keys = << >>)
              => call.result = Undefined
        /\ argModelName.t # "string" => call.result = Undefined

\* A number is passed as modelName with a map that holds a system_default.
C9_Witness ==
    /\ call.op = "getModelTokenValue"
    /\ argModelName = Num(1)
    /\ IsMap(endpointTokenConfig)
    /\ HasOwn(endpointTokenConfig, SystemDefault)
    /\ HasOwn(endpointTokenConfig, <<"1">>)
    /\ call.result = Undefined

---------------------------------------------------------------------------
(* Claims about the built-in table (specification SpecBuiltin) *)

\* C4: matchModelName returns undefined for a modelName that is no string,
\* modelName itself when the endpoint has no built-in map or modelName is a
\* key of it, and otherwise the key findMatchingPattern chooses, or modelName
\* when no key matches.
C4_MatchModelName ==
    call.op = "matchModelName" =>
        LET tokensMap == maxTokensMap[argEndpoint] IN
        IF argModelName.t # "string" THEN call.result = Undefined
        ELSE IF ~IsMap(tokensMap) \/ HasOwn(tokensMap, argModelName.s)
        THEN call.result = argModelName
        ELSE LET pattern == FindMatchingPattern(argModelName, tokensMap)
             IN call.result = (IF pattern # Null THEN pattern ELSE argModelName)

\* C10: when matchModelName has returned a key of the built-in map, the next
\* getModelMaxTokens call for the same name and endpoint, without an
\* override, returns the value stored under that key.
C10_NameAndLimitAgree ==
    [][(/\ call.op = "matchModelName"
        /\ call'.op = "getModelMaxTokens"
        /\ argModelName.t = "string"
        /\ endpointTokenConfig = Undefined
        /\ IsMap(maxTokensMap[argEndpoint])
        /\ call.result.t = "string"
        /\ HasOwn(maxTokensMap[argEndpoint], call.result.s))
          => call'.result = Get(maxTokensMap[argEndpoint], call.result.s)]_vars

---------------------------------------------------------------------------
(* Claims about the catalog normaliser (specification SpecCatalog) *)

\* A catalog input all of whose entries have the CatalogEntry shape.
ValidCatalog(inp) ==
    /\ inp.t = "object"
    /\ inp.data.t = "array"
    /\ \A i \in 1..Len(inp.data.items) : inp.data.items[i] \in ValidEntries

\* Dollars per million tokens of the price strings the model draws.
ExpectedPrice(s) ==
    CASE s = P2 -> Num(2)
      [] s = P4 -> Num(4)
      [] s = Free -> Num(0)
      [] s = Half -> Num(500000)

\* The record the claims expect for a catalog entry.
ExpectedRecord(e) ==
    IF e.id.s = OpenRouterAuto
    THEN TokenConfig(Num(10), Num(30), e.context_length, Undefined)
    ELSE TokenConfig(ExpectedPrice(e.pricing.prompt.s),
                     ExpectedPrice(e.pricing.completion.s),
                     e.context_length, Undefined)

IdsOf(items) == {items[i].id.s : i \in 1..Len(items)}

FirstWith(items, id) == CHOOSE i \in 1..Len(items) :
    items[i].id.s = id /\ \A j \in 1..(i - 1) : items[j].id.s # id

LastWith(items, id) == CHOOSE i \in 1..Len(items) :
    items[i].id.s = id /\ \A j \in (i + 1)..Len(items) : items[j].id.s # id

\* The ids in the order of their first entries.
FirstOccurrences(items) ==
    LET first == {i \in 1..Len(items) : FirstWith(items, items[i].id.s) = i}
        rank(i) == Cardinality({j \in first : j <= i})
    IN [r \in 1..Cardinality(first) |->
            items[CHOOSE i \in first : rank(i) = r].id.s]

\* C3: a map built by processModelData, asked through getModelTokenValue
\* for an id of the input and one of context, prompt and completion, returns
\* that id's value for that field.
C3_RoundTrip ==
    (/\ call.op = "getModelTokenValue"
     /\ IsMap(endpointTokenConfig)
     /\ ValidCatalog(input)
     /\ argModelName.t = "string"
     /\ argModelName.s \in IdsOf(input.data.items)
     /\ argKey \in {"context", "prompt", "completion"})
        => LET items == input.data.items
               e == items[LastWith(items, argModelName.s)]
           IN call.result = Field(ExpectedRecord(e), argKey)

\* C6, as stated: for a valid catalog the returned map has one entry per
\* input entry, keyed by its id, and each is the full record of that entry:
\* its context_length and its prices times 1,000,000, with 10 and 30 for
\* openrouter/auto.
C6_OneRecordPerEntry ==
    (call.op = "processModelData" /\ ValidCatalog(input)) =>
        LET items == input.data.items
            r == call.result
        IN /\ IsMap(r)
           /\ Len(r.keys) = Len(items)
           /\ \A i \in 1..Len(items) :
                 Get(r, items[i].id.s) = ExpectedRecord(items[i])

\* C6, amended: for a valid catalog the returned map has one entry per
\* distinct id of the input, and each is the full record of the last entry
\* with that id: its context_length and its prices times 1,000,000, with 10
\* and 30 for openrouter/auto.
C6_OneRecordPerId ==
    (call.op = "processModelData" /\ ValidCatalog(input)) =>
        LET items == input.data.items
            r == call.result
        IN /\ IsMap(r)
           /\ DOMAIN r.get = IdsOf(items)
           /\ Len(r.keys) = Cardinality(IdsOf(items))
           /\ \A id \in IdsOf(items) :
                 /\ Get(r, id) = ExpectedRecord(items[LastWith(items, id)])
                 /\ Get(r, id).t = "object"
                 /\ Get(r, id).prompt.t = "number"
                 /\ Get(r, id).completion.t = "number"
                 /\ Get(r, id).context.t = "number"

\* Two entries for openrouter/auto with different context lengths and with
\* supplied prices; the map holds the second one's context and 10 and 30.
C6_Witness ==
    /\ call.op = "processModelData"
    /\ ValidCatalog(input)
    /\ Len(input.data.items) = 2
    /\ input.data.items[1].id.s = OpenRouterAuto
    /\ input.data.items[2].id.s = OpenRouterAuto
    /\ input.data.items[2].pricing.prompt.s = P2
    /\ input.data.items[1].context_length = Num(7)
    /\ Get(call.result, OpenRouterAuto) = TokenConfig(Num(10), Num(30), Num(0), Undefined)

\* C7: processModelData ends with the invalid-input error exactly when the
\* input is not a list of conforming entries, and then no map is returned.
C7_AllOrNothing ==
    call.op = "processModelData" =>
        /\ (call.result = InvalidInputData) <=> ~ValidCatalog(input)
        /\ call.result = InvalidInputData => endpointTokenConfig = Undefined
        /\ ValidCatalog(input) => IsMap(call.result) /\ endpointTokenConfig = call.result

\* A conforming entry is followed by one without context_length: the call
\* throws and the caller holds no map.
C7_Witness ==
    /\ call.op = "processModelData"
    /\ call.result = InvalidInputData
    /\ endpointTokenConfig = Undefined
    /\ input.t = "object"
    /\ input.data.t = "array"
    /\ Len(input.data.items) = 2
    /\ input.data.items[1] \in ValidEntries
    /\ input.data.items[2] =
          CatalogEntry(Str(<<"a">>), Pricing(Str(P2), Str(P4)), Undefined)

\* C8, as stated: the keys of the returned map enumerate in the order in
\* which their ids (first) appear in the input, and a repeated id holds the
\* record of its last entry.
C8_InputOrder ==
    (call.op = "processModelData" /\ ValidCatalog(input)) =>
        LET items == input.data.items
            r == call.result
        IN /\ ObjectKeys(r) = FirstOccurrences(items)
           /\ \A id \in IdsOf(items) :
                 Get(r, id) = ExpectedRecord(items[LastWith(items, id)])

\* id1 is enumerated before id2 in the map built from items.
CatalogBefore(items, id1, id2) ==
    \/ IsArrayIndex(id1) /\ IsArrayIndex(id2) /\ DigitsVal(id1) < DigitsVal(id2)
    \/ IsArrayIndex(id1) /\ ~IsArrayIndex(id2)
    \/ /\ ~IsArrayIndex(id1)
       /\ ~IsArrayIndex(id2)
       /\ FirstWith(items, id1) < FirstWith(items, id2)

\* C8, amended: the keys of the returned map enumerate the ids that are
\* integer indices first, in ascending numeric order, and then the other
\* ids in the order in which they first appear in the input; a repeated id
\* holds the record of its last entry.
C8_EnumerationOrder ==
    (call.op = "processModelData" /\ ValidCatalog(input)) =>
        LET items == input.data.items
            r == call.result
            ks == ObjectKeys(r)
        IN /\ {ks[i] : i \in 1..Len(ks)} = IdsOf(items)
           /\ \A i, j \in 1..Len(ks) : i < j => CatalogBefore(items, ks[i], ks[j])
           /\ \A id \in IdsOf(items) :
                 Get(r, id) = ExpectedRecord(items[LastWith(items, id)])

\* The catalog lists "a" and then "1": the map enumerates "1" first.
C8_Witness ==
    /\ call.op = "processModelData"
    /\ ValidCatalog(input)
    /\ Len(input.data.items) = 2
    /\ input.data.items[1].id.s = <<"a">>
    /\ input.data.items[2].id.s = <<"1">>
    /\ ObjectKeys(call.result) = <<<<"1">>, <<"a">>>>

=============================================================================
